---- MODULE Spec2Model ----
(***************************************************************************)
(* Model of src/main.py: the sequential page walk (the __main__ download   *)
(* loop), fetch_with_retry, the SIGINT handler and img2pdf.                *)
(*                                                                         *)
(* A page file is modelled by what it holds:                               *)
(*   "none"    no file                                                     *)
(*   "valid"   a complete image that passes Image.verify()                 *)
(*   "corrupt" non-empty bytes that fail the check                         *)
(*   "empty"   a zero-length file                                          *)
(*   "partial" a file opened for writing whose body was not fully written  *)
(***************************************************************************)
EXTENDS Integers, Sequences, FiniteSets, TLC

\* ---- bounds of the model ------------------------------------------------
MaxPage == 4          \* page numbers the walk may visit: 1..MaxPage
MaxRetries == 1       \* --retries ranges over 0..MaxRetries in the walks of Spec
MaxFetchRetries == 3  \* and over 0..MaxFetchRetries in the one-page runs of SpecFetch
\* The source sets MAX_CONSECUTIVE_FAILURES = 10 and PDF_BATCH_SIZE = 50; the
\* code only compares a counter with the first and slices with the second, so
\* the model runs them scaled down.
MAX_CONSECUTIVE_FAILURES == 3
PDF_BATCH_SIZE == 2

\* ---- program constants --------------------------------------------------
DEFAULT_RETRY_AFTER == 5
EXHAUSTED == -1
IMAGE_EXTS == {".jpg", ".jpeg", ".png", ".gif", ".webp"}
SERVER_ERRORS == {500, 502, 503, 504}

\* ---- inputs the environment may produce ---------------------------------
Pages == 1..MaxPage
Starts == {1, 2}                  \* --start
Backoffs == {3}                   \* --backoff, whole seconds
FetchBackoffs == {1, 3}           \* --backoff in SpecFetch
Delays == {0, 1}                  \* --delay, whole seconds
CachedPages == {2}                \* pages that may hold a file before the run
FinalExts == {".jpg", ".html"}
ContentTypes == {"image/jpeg", "text/html"}
Bodies == {"valid", "empty"}
PlainStatuses == {404, 403}
RetryAfterHeaders == {"absent", "2", "date"}
JitterTenths == {5, 14}
CachedContents == {"none", "valid", "corrupt"}

VARIABLES
    start, max_retries, backoff, delay,   \* args.start, args.retries, args.backoff, args.delay
    files0,                               \* the page directory before the run
    files, tmp,                           \* page number -> content of <name>-NNN.jpg / .tmp
    pc, i, num_pdf, consecutive_failures, \* the download loop
    current_tmp,                          \* _current_tmp: 0 is None, else the page of the path
    attempt, trace, sleeps,               \* fetch_with_retry locals; trace, sleeps: what it did
    status, ctype, raised,                \* what fetch_with_retry handed to the loop
    nap,                                  \* the inter-page sleep in progress, tenths of a second
    outcome, exit_code, exit_reason,      \* how the walk and the process ended
    outcomeOf, requested, probed, clean, delayed,   \* history of this run
    existing, batch_start, results, doc, saved,     \* img2pdf
    notfound, completed    \* pages a worker found missing; workers in completion order

cfg == <<start, max_retries, backoff, delay, files0>>
fs == <<files, tmp>>
walk == <<i, num_pdf, consecutive_failures>>
locals == <<attempt, trace, sleeps>>
ret == <<status, ctype, raised>>
ending == <<outcome, exit_code, exit_reason>>
hist == <<outcomeOf, requested, probed, clean, delayed>>
asm == <<existing, batch_start, results, doc, saved, notfound, completed>>
vars == <<cfg, fs, pc, walk, current_tmp, locals, ret, nap, ending, hist, asm>>

\* ---- pure helpers --------------------------------------------------------
is_valid_jpeg_never(content) == FALSE

is_valid_jpeg(content) == content = "valid"

exists(content) == content # "none"

IsImageExt(ext) == ext \in IMAGE_EXTS

IsImageType(ct) == ct = "image/jpeg"

BackoffWait_shifted(a) == backoff * 2 ^ a

BackoffWait(a) == backoff * 2 ^ (a - 1)

LastAttempt(a) == a = max_retries

\* int() of a header value that is a decimal number.
int(h) == CASE h = "2" -> 2

RetryAfterSeconds(h) == IF h = "absent" THEN DEFAULT_RETRY_AFTER ELSE int(h)

CeilingReached_never(n) == FALSE

CeilingReached_late(n) == n > MAX_CONSECUTIVE_FAILURES

CeilingReached(n) == n >= MAX_CONSECUTIVE_FAILURES

\* The values the loop gives num_pdf, the bound img2pdf receives.
BoundOnHit(n) == n + 1

BoundOnSuccess_same(n) == n

BoundOnSuccess(n) == n + 1

BoundOn404_minus1(n) == n - 1

BoundOn404_next(n) == n + 1

BoundOn404(n) == n

BoundOn302_next(n) == n + 1

BoundOn302(n) == n

sorted_as_completed(s) == s

sorted(s) == SortSeq(s, LAMBDA a, b : a < b)

Min(a, b) == IF a < b THEN a ELSE b

RECURSIVE ValidUpTo(_, _)
ValidUpTo(f, n) ==
    IF n = 0 THEN <<>>
    ELSE IF is_valid_jpeg(f[n]) THEN Append(ValidUpTo(f, n - 1), n)
    ELSE ValidUpTo(f, n - 1)

Batch == SubSeq(existing, batch_start + 1, Min(batch_start + PDF_BATCH_SIZE, Len(existing)))

Range(s) == {s[k] : k \in 1..Len(s)}

\* ---- initial state -------------------------------------------------------
\* The state when the probe is about to be sent: arguments parsed, the page
\* directory as an earlier run left it, SIGINT handler installed.
Started ==
    /\ files = files0
    /\ tmp = [n \in Pages |-> "none"]
    /\ pc = "probe"
    /\ i = start
    /\ num_pdf = start
    /\ consecutive_failures = 0
    /\ current_tmp = 0
    /\ attempt = 0 /\ trace = <<>> /\ sleeps = <<>>
    /\ status = 0 /\ ctype = "" /\ raised = FALSE
    /\ nap = 0
    /\ outcome = "Scanning" /\ exit_code = -1 /\ exit_reason = ""
    /\ outcomeOf = [n \in Pages |-> "none"]
    /\ requested = {}
    /\ probed = FALSE
    /\ clean = TRUE
    /\ delayed = {}
    /\ existing = <<>> /\ batch_start = 0 /\ results = <<>> /\ doc = <<>> /\ saved = FALSE
    /\ notfound = {} /\ completed = <<>>

Init ==
    /\ start \in Starts
    /\ max_retries \in 0..MaxRetries
    /\ backoff \in Backoffs
    /\ delay \in Delays
    /\ files0 \in {f \in [Pages -> CachedContents] :
                      \A n \in Pages \ CachedPages : f[n] = "none"}
    /\ Started

\* Runs that start at the last page of the model: one page is fetched, with
\* a deeper retry budget and more backoff values than Init affords.
InitFetch ==
    /\ start = MaxPage
    /\ max_retries \in 0..MaxFetchRetries
    /\ backoff \in FetchBackoffs
    /\ delay \in Delays
    /\ files0 \in {f \in [Pages -> CachedContents] :
                      \A n \in Pages \ (CachedPages \cup {MaxPage}) : f[n] = "none"}
    /\ Started

\* ---- process exit ---------------------------------------------------------
Exit(code, why) ==
    /\ pc' = "exited"
    /\ exit_code' = code
    /\ exit_reason' = why

\* ---- start-page probe (main.py 288-297) ----------------------------------
\* A 200 whose final URL is not an image is the login page: SystemExit(1).
Probe200 ==
    /\ pc = "probe"
    /\ probed' = TRUE
    /\ \E ext \in FinalExts, ct \in ContentTypes, body \in Bodies :
        /\ clean' = (clean /\ IsImageExt(ext) /\ IsImageType(ct) /\ body = "valid")
        /\ IF ~IsImageExt(ext)
           THEN Exit(1, "auth_probe")
           ELSE pc' = "loop" /\ UNCHANGED <<exit_code, exit_reason>>
    /\ UNCHANGED <<cfg, fs, walk, current_tmp, locals, ret, nap, outcome,
                   outcomeOf, requested, delayed, asm>>

\* Any other status of the probe is ignored.
ProbeOtherStatus ==
    /\ pc = "probe"
    /\ probed' = TRUE
    /\ clean' = FALSE
    /\ pc' = "loop"
    /\ UNCHANGED <<cfg, fs, walk, current_tmp, locals, ret, nap, ending,
                   outcomeOf, requested, delayed, asm>>

\* A transport error of the probe is caught nowhere: the process dies.
ProbeNetworkError ==
    /\ pc = "probe"
    /\ probed' = TRUE
    /\ clean' = FALSE
    /\ Exit(1, "crash")
    /\ UNCHANGED <<cfg, fs, walk, current_tmp, locals, ret, nap, outcome,
                   outcomeOf, requested, delayed, asm>>

\* ---- download loop: top of an iteration (main.py 299-319) ----------------
CacheHit_no_reset ==
    /\ pc = "loop"
    /\ i <= MaxPage
    /\ is_valid_jpeg(files[i])
    /\ num_pdf' = BoundOnHit(i)
    /\ i' = i + 1
    /\ outcomeOf' = [outcomeOf EXCEPT ![i] = "hit"]
    /\ UNCHANGED <<cfg, fs, pc, consecutive_failures, current_tmp, locals, ret, nap,
                   ending, requested, probed, clean, delayed, asm>>

\* is_valid_jpeg(dest): the page is served from cache.
CacheHit ==
    /\ pc = "loop"
    /\ i <= MaxPage
    /\ is_valid_jpeg(files[i])
    /\ num_pdf' = BoundOnHit(i)
    /\ consecutive_failures' = 0
    /\ i' = i + 1
    /\ outcomeOf' = [outcomeOf EXCEPT ![i] = "hit"]
    /\ UNCHANGED <<cfg, fs, pc, current_tmp, locals, ret, nap, ending,
                   requested, probed, clean, delayed, asm>>

\* Otherwise enter _track_tmp(tmp) and call fetch_with_retry; with
\* max_retries < 1 its loop body never runs and it returns (-1, {}).
BeginFetch ==
    /\ pc = "loop"
    /\ i <= MaxPage
    /\ ~is_valid_jpeg(files[i])
    /\ current_tmp' = i
    /\ trace' = <<>>
    /\ sleeps' = <<>>
    /\ IF max_retries >= 1
       THEN attempt' = 1 /\ pc' = "attempt" /\ UNCHANGED ret
       ELSE /\ attempt' = 0 /\ pc' = "handle"
            /\ status' = EXHAUSTED /\ ctype' = "" /\ raised' = FALSE
    /\ UNCHANGED <<cfg, fs, walk, nap, ending, hist, asm>>

\* ---- fetch_with_retry (main.py 105-163) ----------------------------------
Return(s, ct) ==
    /\ status' = s
    /\ ctype' = ct
    /\ raised' = FALSE
    /\ pc' = "handle"

Sent(kind) ==
    /\ trace' = Append(trace, kind)
    /\ requested' = requested \cup {i}

\* After a sleep the for loop goes on; when the range is used up the function
\* falls out of the loop and returns (-1, {}).
AfterSleep ==
    /\ pc = "sleeping"
    /\ IF attempt < max_retries
       THEN attempt' = attempt + 1 /\ pc' = "attempt" /\ UNCHANGED ret
       ELSE Return(EXHAUSTED, "") /\ UNCHANGED attempt
    /\ UNCHANGED <<cfg, fs, walk, current_tmp, trace, sleeps, nap, ending, hist, asm>>

\* 429: sleep Retry-After (default 5) and continue. int() of a header that
\* is not a number raises ValueError, which nothing catches.
Resp429 ==
    /\ pc = "attempt"
    /\ Sent("429")
    /\ clean' = FALSE
    /\ \E h \in RetryAfterHeaders :
        IF h = "date"
        THEN Exit(1, "crash") /\ UNCHANGED sleeps
        ELSE /\ sleeps' = Append(sleeps, RetryAfterSeconds(h))
             /\ pc' = "sleeping"
             /\ UNCHANGED <<exit_code, exit_reason>>
    /\ UNCHANGED <<cfg, fs, walk, current_tmp, attempt, ret, nap, outcome,
                   outcomeOf, probed, delayed, asm>>

\* 500/502/503/504: return it on the last attempt, else back off and continue.
Resp5xx ==
    /\ pc = "attempt"
    /\ Sent("5xx")
    /\ clean' = FALSE
    /\ \E s \in SERVER_ERRORS :
        IF LastAttempt(attempt)
        THEN Return(s, "") /\ UNCHANGED sleeps
        ELSE /\ sleeps' = Append(sleeps, BackoffWait(attempt))
             /\ pc' = "sleeping"
             /\ UNCHANGED ret
    /\ UNCHANGED <<cfg, fs, walk, current_tmp, attempt, nap, ending,
                   outcomeOf, probed, delayed, asm>>

\* 200: a final URL that is no image is reported as 302; otherwise tmp_path is
\* opened "wb" (created or truncated) and the body is streamed into it.
Resp200 ==
    /\ pc = "attempt"
    /\ \E ext \in FinalExts, ct \in ContentTypes :
        IF ~IsImageExt(ext)
        THEN /\ Sent("login")
             /\ clean' = FALSE
             /\ Return(302, ct)
             /\ UNCHANGED tmp
        ELSE /\ Sent("200")
             /\ clean' = (clean /\ IsImageType(ct))
             /\ tmp' = [tmp EXCEPT ![i] = "partial"]
             /\ ctype' = ct
             /\ pc' = "streaming"
             /\ UNCHANGED <<status, raised>>
    /\ UNCHANGED <<cfg, files, walk, current_tmp, attempt, sleeps, nap, ending,
                   outcomeOf, probed, delayed, asm>>

\* Any other status (404, 403, ...) is returned as it is.
RespPlain ==
    /\ pc = "attempt"
    /\ \E s \in PlainStatuses :
        /\ Sent(IF s = 404 THEN "404" ELSE "other")
        /\ clean' = (clean /\ s = 404)
        /\ Return(s, "")
    /\ UNCHANGED <<cfg, fs, walk, current_tmp, attempt, sleeps, nap, ending,
                   outcomeOf, probed, delayed, asm>>

Caught_swallow ==
    /\ clean' = FALSE
    /\ raised' = FALSE /\ status' = 200 /\ ctype' = ctype /\ pc' = "handle"
    /\ UNCHANGED sleeps

\* except (TimeoutException, ReadError, ConnectError): raise on the last
\* attempt, else back off and continue.
Caught ==
    /\ clean' = FALSE
    /\ IF LastAttempt(attempt)
       THEN /\ raised' = TRUE /\ status' = 0 /\ ctype' = "" /\ pc' = "handle"
            /\ UNCHANGED sleeps
       ELSE /\ sleeps' = Append(sleeps, BackoffWait(attempt))
            /\ pc' = "sleeping"
            /\ UNCHANGED ret

\* The request itself fails: no response.
NetworkError ==
    /\ pc = "attempt"
    /\ Sent("neterr")
    /\ Caught
    /\ UNCHANGED <<cfg, fs, walk, current_tmp, attempt, nap, ending,
                   outcomeOf, probed, delayed, asm>>

\* The body was streamed to the end: tmp_path holds it.
StreamDone ==
    /\ pc = "streaming"
    /\ \E body \in Bodies :
        /\ tmp' = [tmp EXCEPT ![i] = body]
        /\ clean' = (clean /\ body = "valid")
    /\ status' = 200
    /\ raised' = FALSE
    /\ pc' = "handle"
    /\ UNCHANGED <<cfg, files, walk, current_tmp, locals, ctype, nap, ending,
                   outcomeOf, requested, probed, delayed, asm>>

\* The connection breaks while streaming (ReadError): what was written stays.
StreamError ==
    /\ pc = "streaming"
    /\ trace' = [trace EXCEPT ![Len(trace)] = "readerr"]
    /\ Caught
    /\ UNCHANGED <<cfg, fs, walk, current_tmp, attempt, nap, ending,
                   outcomeOf, requested, probed, delayed, asm>>

\* ---- download loop: what the fetch handed back (main.py 320-365) ---------
\* Leaving the with _track_tmp block resets _current_tmp; the locals of
\* fetch_with_retry and the values it returned are dead from here on.
LeaveFetch ==
    /\ current_tmp' = 0
    /\ attempt' = 0 /\ trace' = <<>> /\ sleeps' = <<>>
    /\ status' = 0 /\ ctype' = "" /\ raised' = FALSE

Break(how) ==
    /\ pc' = "endloop"
    /\ outcome' = how
    /\ i' = i

\* consecutive_failures += 1; break at the ceiling, else continue (which
\* skips the inter-page sleep at the bottom of the loop body).
FailPage ==
    /\ outcomeOf' = [outcomeOf EXCEPT ![i] = "skipped"]
    /\ consecutive_failures' = consecutive_failures + 1
    /\ IF CeilingReached(consecutive_failures + 1)
       THEN Break("AbortedCeiling")
       ELSE pc' = "loop" /\ i' = i + 1 /\ UNCHANGED outcome
    /\ LeaveFetch
    /\ UNCHANGED <<cfg, fs, num_pdf, nap, exit_code, exit_reason,
                   requested, probed, clean, delayed, asm>>

\* fetch_with_retry raised the transport error of its last attempt.
HandleRaised ==
    /\ pc = "handle"
    /\ raised
    /\ FailPage

Handle404 ==
    /\ pc = "handle"
    /\ ~raised
    /\ status = 404
    /\ num_pdf' = BoundOn404(i)
    /\ Break("Finished")
    /\ outcomeOf' = [outcomeOf EXCEPT ![i] = "notfound"]
    /\ LeaveFetch
    /\ UNCHANGED <<cfg, fs, consecutive_failures, nap, exit_code, exit_reason,
                   requested, probed, clean, delayed, asm>>

Handle302 ==
    /\ pc = "handle"
    /\ ~raised
    /\ status = 302
    /\ num_pdf' = BoundOn302(i)
    /\ Break("AbortedAuth")
    /\ outcomeOf' = [outcomeOf EXCEPT ![i] = "auth"]
    /\ LeaveFetch
    /\ UNCHANGED <<cfg, fs, consecutive_failures, nap, exit_code, exit_reason,
                   requested, probed, clean, delayed, asm>>

HandleUnexpected ==
    /\ pc = "handle"
    /\ ~raised
    /\ status \notin {404, 302, 200}
    /\ FailPage

HandleInvalidContent ==
    /\ pc = "handle"
    /\ ~raised
    /\ status = 200
    /\ (~IsImageType(ctype) \/ ~exists(tmp[i]))
    /\ FailPage

\* tmp.rename(dest); the inter-page sleep follows when args.delay is set.
HandleSuccess ==
    /\ pc = "handle"
    /\ ~raised
    /\ status = 200
    /\ IsImageType(ctype) /\ exists(tmp[i])
    /\ files' = [files EXCEPT ![i] = tmp[i]]
    /\ tmp' = [tmp EXCEPT ![i] = "none"]
    /\ num_pdf' = BoundOnSuccess(i)
    /\ consecutive_failures' = 0
    /\ outcomeOf' = [outcomeOf EXCEPT ![i] = "stored"]
    /\ LeaveFetch
    /\ IF delay # 0
       THEN /\ \E j \in JitterTenths : nap' = delay * j
            /\ delayed' = delayed \cup {i}
            /\ pc' = "delay"
            /\ i' = i
       ELSE /\ pc' = "loop"
            /\ i' = i + 1
            /\ UNCHANGED <<nap, delayed>>
    /\ UNCHANGED <<cfg, ending, requested, probed, clean, asm>>

DelayDone ==
    /\ pc = "delay"
    /\ nap' = 0
    /\ pc' = "loop"
    /\ i' = i + 1
    /\ UNCHANGED <<cfg, fs, num_pdf, consecutive_failures, current_tmp, locals, ret,
                   ending, hist, asm>>

\* ---- after the loop (main.py 367-369) and img2pdf (main.py 175-219) ------
\* --no-pdf is read once, here. img2pdf lists pages 1..num-1 and keeps the
\* ones that pass is_valid_jpeg.
EndNoPdf ==
    /\ pc = "endloop"
    /\ Exit(0, "done")
    /\ UNCHANGED <<cfg, fs, walk, current_tmp, locals, ret, nap, outcome, hist, asm>>

StartAssembly ==
    /\ pc = "endloop"
    /\ existing' = ValidUpTo(files, num_pdf - 1)
    /\ batch_start' = 0
    /\ results' = <<>>
    /\ pc' = IF ValidUpTo(files, num_pdf - 1) = <<>> THEN "save" ELSE "batch"
    /\ UNCHANGED <<cfg, fs, walk, current_tmp, locals, ret, nap, ending, hist, doc, saved,
                   notfound, completed>>

\* The pages of the batch whose future as_completed has not yielded yet.
Pending == Range(Batch) \ (Range(results) \cup notfound)

\* A worker of the batch finishes _load_page; as_completed yields it.
WorkerDone ==
    /\ pc = "batch"
    /\ \E p \in Pending :
        /\ results' = Append(results, p)
        /\ completed' = Append(completed, p)
    /\ UNCHANGED <<cfg, fs, pc, walk, current_tmp, locals, ret, nap, ending, hist,
                   existing, batch_start, doc, saved, notfound>>

\* The file was removed after img2pdf listed it: read_bytes raises
\* FileNotFoundError, the loop logs a warning and the page has no result.
WorkerFileMissing ==
    /\ pc = "batch"
    /\ \E p \in Pending :
        /\ files' = [files EXCEPT ![p] = "none"]
        /\ notfound' = notfound \cup {p}
        /\ completed' = Append(completed, p)
    /\ clean' = FALSE
    /\ UNCHANGED <<cfg, tmp, pc, walk, current_tmp, locals, ret, nap, ending,
                   outcomeOf, requested, probed, delayed,
                   existing, batch_start, results, doc, saved>>

\* _load_page raises anything else (the read fails with another OSError, or
\* the bytes no longer open as an image): future.result() re-raises it, no
\* except clause matches, img2pdf is left before pdf.save and the process dies.
WorkerRaises ==
    /\ pc = "batch"
    /\ \E p \in Pending :
        completed' = Append(completed, p)
    /\ Exit(1, "load_failed")
    /\ UNCHANGED <<cfg, fs, walk, current_tmp, locals, ret, nap, outcome, hist,
                   existing, batch_start, results, doc, saved, notfound>>

\* for page_num in sorted(results): append the page.
AppendBatch ==
    /\ pc = "batch"
    /\ Pending = {}
    /\ doc' = doc \o sorted(results)
    /\ results' = <<>>
    /\ batch_start' = batch_start + PDF_BATCH_SIZE
    /\ pc' = IF batch_start + PDF_BATCH_SIZE < Len(existing) THEN "batch" ELSE "save"
    /\ UNCHANGED <<cfg, fs, walk, current_tmp, locals, ret, nap, ending, hist,
                   existing, saved, notfound, completed>>

Save ==
    /\ pc = "save"
    /\ saved' = TRUE
    /\ Exit(0, "done")
    /\ UNCHANGED <<cfg, fs, walk, current_tmp, locals, ret, nap, outcome, hist,
                   existing, batch_start, results, doc, notfound, completed>>

\* pdf.save raises (disk full, unwritable path): the process dies.
SaveFails ==
    /\ pc = "save"
    /\ Exit(1, "save_failed")
    /\ UNCHANGED <<cfg, fs, walk, current_tmp, locals, ret, nap, outcome, hist, asm>>

\* ---- SIGINT (main.py 73-80) ----------------------------------------------
Interrupt_no_unlink ==
    /\ pc # "exited"
    /\ Exit(1, "interrupt")
    /\ UNCHANGED <<cfg, fs, walk, current_tmp, locals, ret, nap, outcome, hist, asm>>

\* The handler runs between any two steps: it unlinks _current_tmp if it is
\* set and exists, then raises SystemExit(1).
Interrupt ==
    /\ pc # "exited"
    /\ tmp' = IF current_tmp # 0 /\ exists(tmp[current_tmp])
              THEN [tmp EXCEPT ![current_tmp] = "none"]
              ELSE tmp
    /\ Exit(1, "interrupt")
    /\ UNCHANGED <<cfg, files, walk, current_tmp, locals, ret, nap, outcome, hist, asm>>

Next ==
    \/ Probe200 \/ ProbeOtherStatus \/ ProbeNetworkError
    \/ CacheHit \/ BeginFetch
    \/ AfterSleep \/ Resp429 \/ Resp5xx \/ Resp200 \/ RespPlain \/ NetworkError
    \/ StreamDone \/ StreamError
    \/ HandleRaised \/ Handle404 \/ Handle302 \/ HandleUnexpected
    \/ HandleInvalidContent \/ HandleSuccess \/ DelayDone
    \/ EndNoPdf \/ StartAssembly \/ WorkerDone \/ WorkerFileMissing \/ WorkerRaises
    \/ AppendBatch \/ Save \/ SaveFails
    \/ Interrupt

Spec == Init /\ [][Next]_vars

SpecFetch == InitFetch /\ [][Next]_vars

\* The program is one thread that keeps running: a response or a timeout
\* arrives (timeout=30), a sleep ends, a worker finishes. SIGINT may never come.
Progress == Next /\ exit_reason' # "interrupt"

SpecFair == Init /\ [][Next]_vars /\ WF_vars(Progress)

SpecFetchFair == InitFetch /\ [][Next]_vars /\ WF_vars(Progress)

\* ---- vocabulary of the properties ----------------------------------------
WalkEnded ==
    \/ pc \in {"endloop", "batch", "save"}
    \/ pc = "exited" /\ exit_reason \in {"done", "save_failed"}

EmptyCache0 == \A n \in Pages : files0[n] = "none"

Ascending(s) == \A k \in 1..(Len(s) - 1) : s[k] < s[k + 1]

AllOf(t, kind) == t # <<>> /\ \A k \in 1..Len(t) : t[k] = kind

InFetch == pc \in {"attempt", "streaming", "sleeping", "handle"}

\* ---- C1 ------------------------------------------------------------------
\* C1: a walk from page 1 over an empty cache in which every response was a
\* 200 image with valid bytes until one page answered 404 ends Finished, the
\* bound handed to img2pdf is the page that answered 404 (N+1), pages 1..N
\* are stored valid, and the saved document is exactly pages 1..N in order.
C1_CleanWalkFinishes ==
    (start = 1 /\ EmptyCache0 /\ clean /\ i \in requested /\ WalkEnded) =>
        /\ outcome = "Finished"
        /\ num_pdf = i
        /\ \A n \in 1..(i - 1) : is_valid_jpeg(files[n])
        /\ (saved => doc = [k \in 1..(i - 1) |-> k])

C1_Witness ==
    /\ start = 1 /\ EmptyCache0 /\ clean
    /\ outcome = "Finished" /\ num_pdf = 4
    /\ saved /\ doc = <<1, 2, 3>>

\* ---- C2 ------------------------------------------------------------------
C2_State ==
    (outcome = "AbortedAuth" /\ i > start) =>
        /\ num_pdf = i
        /\ files[i] = files0[i]
        /\ \A n \in requested : n <= i
        /\ (saved => /\ Ascending(doc)
                     /\ Range(doc) = {n \in 1..(i - 1) : is_valid_jpeg(files[n])})

C2_Step ==
    (InFetch /\ trace # <<>> /\ trace[Len(trace)] = "login" /\ i > start /\ pc' = "endloop")
        => (outcome' = "AbortedAuth" /\ i' = i)

\* C2: when page n > start answers 200 at a non-image URL, the fetch reports
\* it and the walk aborts at n for authentication: the file at n's final name
\* is untouched, nothing above n is requested, the bound is n, and the
\* document saved afterwards holds exactly the valid pages below n, ascending.
C2_AuthRedirectAborts ==
    /\ [](C2_State)
    /\ []((pc = "handle" /\ trace # <<>> /\ trace[Len(trace)] = "login")
            => (status = 302 /\ ~raised))
    /\ [][C2_Step]_vars

C2_Witness ==
    /\ outcome = "AbortedAuth" /\ start = 1 /\ i = 3
    /\ saved /\ doc = <<1, 2>>

\* ---- C3 ------------------------------------------------------------------
\* C3: when every response of a fetch is 500/502/503/504, fetch_with_retry
\* returns after exactly max_retries GETs with the server-error status, and
\* its sleeps are backoff*2^(k-1) after attempt k = 1..max_retries-1, with
\* none after the last attempt.
C3_ServerErrorRetryBound ==
    /\ (InFetch /\ AllOf(trace, "5xx")) => Len(trace) <= max_retries
    /\ (pc = "handle" /\ AllOf(trace, "5xx")) =>
        /\ Len(trace) = max_retries
        /\ ~raised
        /\ status \in SERVER_ERRORS
        /\ sleeps = [k \in 1..(max_retries - 1) |-> backoff * 2 ^ (k - 1)]

C3_Witness ==
    /\ pc = "handle" /\ AllOf(trace, "5xx")
    /\ max_retries = 3 /\ backoff = 3
    /\ sleeps = <<3, 6>>

\* ---- C4 ------------------------------------------------------------------
\* The number of pages immediately below and including n that this walk
\* skipped as failures, one after the other.
RECURSIVE TrailingSkips(_)
TrailingSkips(n) ==
    IF n < 1 \/ n > MaxPage THEN 0
    ELSE IF outcomeOf[n] # "skipped" THEN 0
    ELSE 1 + TrailingSkips(n - 1)

FetchFailed ==
    /\ pc = "handle"
    /\ \/ raised
       \/ status \notin {200, 404, 302}
       \/ status = 200 /\ ~IsImageType(ctype)

C4_State ==
    /\ (outcome = "Scanning" /\ pc \in {"loop", "attempt", "streaming", "sleeping", "handle"})
          => (consecutive_failures = TrailingSkips(i - 1)
              /\ consecutive_failures < MAX_CONSECUTIVE_FAILURES)
    /\ (outcome = "AbortedCeiling")
          <=> (consecutive_failures >= MAX_CONSECUTIVE_FAILURES)
    /\ (outcome = "AbortedCeiling")
          => /\ consecutive_failures = MAX_CONSECUTIVE_FAILURES
             /\ TrailingSkips(i) = MAX_CONSECUTIVE_FAILURES
             /\ \A n \in requested : n <= i

C4_Step ==
    (FetchFailed /\ pc' # "exited") =>
        /\ consecutive_failures' = consecutive_failures + 1
        /\ outcomeOf'[i] = "skipped"
        /\ IF consecutive_failures + 1 < MAX_CONSECUTIVE_FAILURES
           THEN pc' = "loop" /\ i' = i + 1 /\ outcome' = "Scanning"
           ELSE pc' = "endloop" /\ i' = i /\ outcome' = "AbortedCeiling"

\* C4: the walk aborts for failures exactly when consecutive_failures reaches
\* MAX_CONSECUTIVE_FAILURES: every failed page (raised network error, final
\* server error, unexpected status, invalid content type) adds one; below the
\* ceiling the walk skips the page and goes on to the next number; at the
\* ceiling it stops and requests nothing further.
C4_CeilingAbortsExactly ==
    /\ [](C4_State)
    /\ [][C4_Step]_vars

C4_Witness ==
    /\ outcome = "AbortedCeiling"
    /\ start = 1
    /\ outcomeOf[1] = "stored"
    /\ i = MAX_CONSECUTIVE_FAILURES + 1

\* ---- C5 ------------------------------------------------------------------
CachedRange(N) == \A n \in start..N : files0[n] = "valid"

\* C5 as claimed: over a fully cached range start..N the run sends no request
\* for those pages, the request before the per-page loop included.
C5_CachedRerunSendsNothing ==
    \A N \in start..MaxPage :
        CachedRange(N) => (~probed /\ requested \cap (start..N) = {})

\* C5 amended: over a fully cached range start..N the per-page loop sends no
\* request for those pages (the start-page probe before the loop is still
\* sent); once past them the bound is at least N+1, and it is N+1 when page
\* N+1 answers 404 as it did for the run that filled the cache.
C5_CachedRerunLoopSendsNothing ==
    \A N \in start..MaxPage :
        CachedRange(N) =>
            /\ requested \cap (start..N) = {}
            /\ (pc # "probe" /\ i <= N) => pc \in {"loop", "exited"}
            /\ (i > N) => num_pdf >= N + 1
            /\ (outcome = "Finished" /\ i = N + 1) => num_pdf = N + 1

C5_Witness ==
    /\ start = 2 /\ CachedRange(2)
    /\ probed
    /\ outcome = "Finished" /\ i = 3 /\ num_pdf = 3
    /\ requested = {3}

C7_ExitStatusTellsOutcome ==
    (pc = "exited") =>
        /\ (outcome = "Finished" /\ saved) => exit_code = 0
        /\ (outcome \in {"AbortedAuth", "AbortedCeiling"}) => exit_code # 0
        /\ (exit_reason = "interrupt") => exit_code # 0

\* ---- C8 ------------------------------------------------------------------
\* C8 as claimed: for every retry count, a fetch whose first response is 429
\* and whose next response is (or would be) a fully streamed 200 image sleeps
\* Retry-After (5 by default), sends a second GET and returns 200 with the
\* body in the temp file.
C8_RateLimitedOnceSucceeds ==
    (/\ pc = "handle"
     /\ trace # <<>> /\ trace[1] = "429"
     /\ (Len(trace) >= 2 => trace[2] = "200")) =>
        /\ Len(trace) = 2
        /\ status = 200 /\ ~raised
        /\ sleeps # <<>>
        /\ sleeps[1] \in {RetryAfterSeconds(h) : h \in RetryAfterHeaders \ {"date"}}
        /\ exists(tmp[i])

\* ---- C9 ------------------------------------------------------------------
\* C9 as claimed: no run of 429 responses makes fetch_with_retry give the
\* page up: it never hands the loop a result after nothing but 429s.
C9_RateLimitNeverGivesUp ==
    ~(pc = "handle" /\ AllOf(trace, "429"))

\* ---- C10 -----------------------------------------------------------------
\* C10 as claimed: when fetch_with_retry ends in anything but a 200 (a
\* status it returns, exhausted attempts, or the network error it raises),
\* no temp file of the page exists.
C10_NoTempUnlessSuccess ==
    (pc = "handle" /\ (raised \/ status # 200)) => ~exists(tmp[i])

\* ---- C11 -----------------------------------------------------------------
\* C11: in every reachable state, after network errors and interrupts too,
\* the file at a page's final name is absent, or the file that was there
\* before the run, or the complete body of a 200 response whose streaming
\* finished; a partly written body is never at the final name.
C11_NoPartialAtFinalName ==
    \A n \in Pages :
        /\ files[n] # "partial"
        /\ \/ ~exists(files[n])
           \/ files[n] = files0[n]
           \/ outcomeOf[n] = "stored" /\ files[n] \in Bodies

\* SIGINT while the body of the re-fetch of a corrupt cached page was being
\* streamed: the corrupt file is still the one at the final name.
C11_Witness ==
    /\ exit_reason = "interrupt"
    /\ trace # <<>> /\ trace[Len(trace)] = "200" /\ status = 0
    /\ files0[i] = "corrupt" /\ files[i] = "corrupt"
    /\ \E n \in Pages : outcomeOf[n] = "stored"

\* ---- C12 -----------------------------------------------------------------
\* _current_tmp is set: a page is between entering and leaving _track_tmp.
FetchInFlight == current_tmp # 0

C12_State ==
    (exit_reason = "interrupt" /\ FetchInFlight) =>
        /\ pc = "exited"
        /\ ~exists(tmp[current_tmp])
        /\ ~saved /\ doc = <<>> /\ existing = <<>>

C12_Step ==
    /\ pc # "exited"
    /\ (FetchInFlight /\ exit_reason' = "interrupt") =>
          (requested' = requested /\ files' = files /\ asm' = asm)

C13_AssemblyOrderDeterministic ==
    /\ Ascending(doc)
    /\ Range(doc) \subseteq Range(existing)
    /\ saved => doc = ValidUpTo(files, num_pdf - 1)

\* Two batches; the workers of the first one completed in descending order.
C13_Witness ==
    /\ saved
    /\ completed = <<2, 1, 3>>
    /\ doc = <<1, 2, 3>>

\* ---- C14 -----------------------------------------------------------------
\* C14 as claimed: assembly is best-effort: once img2pdf has listed pages,
\* only an interrupt or a failing pdf.save keeps it from saving a document
\* that holds every valid page below the bound; a page that is missing,
\* fails the check or fails to load in a worker is left out.
C14_AssemblyBestEffort ==
    (pc = "exited" /\ existing # <<>> /\ exit_reason \notin {"interrupt", "save_failed"}) =>
        /\ saved
        /\ doc = ValidUpTo(files, num_pdf - 1)

\* ---- C15 -----------------------------------------------------------------
\* C15 as claimed: a 200 response is renamed to the final name and counted a
\* success only when its content type is an image type and its body is not
\* empty; a 200 image response with a zero-length body is handled as a
\* failure and nothing is renamed.
C15_EmptyBodyIsFailure ==
    /\ \A n \in Pages : outcomeOf[n] = "stored" => files[n] # "empty"
    /\ \A n \in Pages : (files[n] = "empty") => files0[n] = "empty"

\* ---- C16 -----------------------------------------------------------------
\* C16 as claimed: with a non-zero delay, every page the walk handled through
\* the network, stored or skipped as a failure, is followed by a sleep of
\* delay times a jitter factor in [0.5, 1.5) before the next page number is
\* looked at; a page served from cache is followed by no sleep.
C16_DelayAfterEveryNetworkPage ==
    (delay # 0) =>
        /\ \A n \in requested :
              (outcomeOf[n] \in {"stored", "skipped"} /\ n < i) => n \in delayed
        /\ \A n \in Pages : outcomeOf[n] = "hit" => n \notin delayed
        /\ (pc = "delay") => (5 * delay <= nap /\ nap < 15 * delay)

\* ---- C17 -----------------------------------------------------------------
C17_State ==
    /\ (outcome = "Scanning" /\ pc = "loop") =>
          consecutive_failures = TrailingSkips(i - 1)
    /\ \A n \in Pages :
        /\ (outcomeOf[n] = "hit") =>
              (n \notin requested /\ num_pdf > n /\ is_valid_jpeg(files0[n]))
        /\ (outcomeOf[n] = "stored" /\ n \notin notfound) => files[n] \in Bodies
        /\ (exists(files0[n]) /\ ~is_valid_jpeg(files0[n]) /\ n >= start /\ n < i) =>
              outcomeOf[n] \in {"stored", "skipped"}

C17_Step ==
    /\ (pc = "loop" /\ i <= MaxPage /\ is_valid_jpeg(files[i]) /\ pc' # "exited") =>
          /\ consecutive_failures' = 0
          /\ num_pdf' = i + 1
          /\ i' = i + 1 /\ pc' = "loop"
          /\ requested' = requested /\ fs' = fs
    /\ (pc = "loop" /\ i <= MaxPage /\ ~is_valid_jpeg(files[i]) /\ pc' # "exited") =>
          /\ current_tmp' = i /\ i' = i
          /\ pc' \in {"attempt", "handle"}
          /\ ~exists(tmp'[i])

\* C17: a page whose cached file passes the integrity check counts as a
\* success without a request: the failure counter goes to zero and the bound
\* to the next page, so the counter is always the number of pages skipped
\* one after the other since the last hit or stored page. A page whose file
\* exists but fails the check is fetched again, and when that fetch succeeds
\* the body it streamed replaces the file.
C17_CacheHitIsSuccess ==
    /\ [](C17_State)
    /\ [][C17_Step]_vars

\* Three skipped pages with a cache hit between them: the walk goes on.
C17_Witness ==
    /\ outcomeOf = <<"skipped", "hit", "skipped", "skipped">>
    /\ outcome = "Scanning"
    /\ consecutive_failures = 2

\* ---- C18 -----------------------------------------------------------------
FetchRunning == pc \in {"attempt", "streaming", "sleeping"}

C18_AtMostMaxRetriesGets == InFetch => Len(trace) <= max_retries

C18_EndsByReturnOrTransportError ==
    /\ ~(pc = "exited" /\ exit_reason = "crash" /\ FetchInFlight)
    /\ (pc = "handle" /\ raised) =>
          /\ Len(trace) = max_retries
          /\ trace[Len(trace)] \in {"neterr", "readerr"}

\* C18 as claimed: whatever the responses to one page (429, 500/502/503/504,
\* transport errors, in any mix), fetch_with_retry sends at most max_retries
\* GETs and always ends, by returning a status or by raising the transport
\* error of the last allowed attempt.
C18_FetchAlwaysEnds ==
    /\ [](C18_AtMostMaxRetriesGets)
    /\ [](C18_EndsByReturnOrTransportError)
    /\ (FetchRunning ~> ~FetchRunning)

\* ---- C19 -----------------------------------------------------------------
Successes == {n \in Pages : outcomeOf[n] \in {"hit", "stored"}}

\* The last page found valid in cache or stored so far; start-1 if none.
LastSuccess == IF Successes = {} THEN start - 1
               ELSE CHOOSE n \in Successes : \A m \in Successes : m <= n

\* The walk is over, or the process ended without a walk result (SIGINT, a
\* crash, the probe's authentication exit).
WalkOver == outcome # "Scanning" \/ pc = "exited"

C19_State ==
    /\ \A n \in requested : n <= LastSuccess + MAX_CONSECUTIVE_FAILURES
    /\ (outcome = "Scanning" /\ InFetch) => i <= LastSuccess + MAX_CONSECUTIVE_FAILURES
    /\ i <= LastSuccess + MAX_CONSECUTIVE_FAILURES + 1

C20_BoundCoversSuccesses ==
    /\ num_pdf >= start
    /\ \A n \in Successes : n < num_pdf
    /\ (outcome = "AbortedCeiling") => num_pdf = LastSuccess + 1
    /\ (pc \in {"batch", "save"} \/ saved) => Range(existing) \subseteq 1..(num_pdf - 1)

C20_Witness ==
    /\ outcome = "AbortedCeiling"
    /\ Successes = {1} /\ num_pdf = 2
    /\ saved /\ doc = <<1>>

====
